---- MODULE Spec2Model ----
(***************************************************************************)
(* Model of fishbowl/api.py: the Fishbowl session (connect, close,         *)
(* send_message and the guarded operations built on it), the 4-byte        *)
(* length-prefixed framing and the status check.                           *)
(*                                                                         *)
(* One action per public method; every action runs the whole method,       *)
(* nested calls included.  The peer and the transport are the environment: *)
(* the document the server answers with is fixed in Init, what the socket  *)
(* does on each call (refuses, breaks on send, delivers only part of the   *)
(* frame and then times out / reaches end of stream / resets, fails on     *)
(* close) is chosen per call.                                              *)
(*                                                                         *)
(* The wire is a sequence of units.  The four units of the length prefix   *)
(* are octets (0..255).  A unit of the body stands for the run of octets   *)
(* that serialises one item of the XML document: the start of the          *)
(* document, one element, the end of the root element, or one trailing     *)
(* whitespace character.                                                   *)
(***************************************************************************)
EXTENDS Integers, Sequences, FiniteSets, TLC

\* ---------------------------------------------------------------- bounds
MaxElems == 2
MaxPad == 1
MaxLeaked == 1
MaxPayload == 3

MaxParts == 2

MaxBody == 2

MaxCalls == 1

\* ------------------------------------------------------- python values
None == "None"
Unset == "Unset"

PrefixLen == 4

SUCCESS == "1000"

GENERIC_ERROR == "1001"

\* ------------------------------------------------------------ exceptions
NoExc == [type |-> "none", msg |-> ""]

FishbowlError(m) == [type |-> "FishbowlError", msg |-> m]

NotConnected == [type |-> "OSError", msg |-> "Not connected"]

TransportError == [type |-> "OSError", msg |-> "transport"]

SocketTimeout == [type |-> "socket.timeout", msg |-> "timed out"]

StructError == [type |-> "struct.error", msg |-> "unpack requires a buffer of 4 bytes"]

XMLSyntaxError == [type |-> "XMLSyntaxError", msg |-> "syntax"]

CloseError == [type |-> "OSError", msg |-> "close"]

\* ----------------------------------------------------------- documents
\* An element of a parsed document, in document order (what iter() yields),
\* with its depth below the root element.  The root element (FbiXml) is the
\* OpenU .. CloseU pair itself; it has no text and no statusCode.
ElAt(t, x, c, d) == [tag |-> t, text |-> x, status |-> c, depth |-> d]

El(t, x, c) == ElAt(t, x, c, 1)

OpenU == ElAt("<", None, None, 0)

CloseU == ElAt(">", None, None, 0)

WsU == ElAt(" ", None, None, 0)

MarkerTags == {"<", ">", " "}

LoginTags == {"loginRs", "LoginRs", "FbiMsgsRs"}

StatusValues == {None, "", SUCCESS, GENERIC_ERROR}

KeyTexts == {None, "K1", "K2"}

Elements ==
    {El("Key", x, None) : x \in KeyTexts}
    \cup {El(t, None, c) : t \in LoginTags, c \in StatusValues}
    \cup {El("FbiXml", None, GENERIC_ERROR)}

RECURSIVE SeqsUpTo(_, _)
SeqsUpTo(S, n) ==
    IF n = 0 THEN {<<>>}
    ELSE LET shorter == SeqsUpTo(S, n - 1)
         IN  shorter \cup {Append(q, e) : q \in {p \in shorter : Len(p) = n - 1}, e \in S}

Docs == SeqsUpTo(Elements, MaxElems) \ {<<>>}

\* What the server puts on the wire for a document: the document followed by
\* pad whitespace characters.
RECURSIVE Pad(_)
Pad(n) == IF n = 0 THEN <<>> ELSE <<WsU>> \o Pad(n - 1)

Serialize(doc, pad) == <<OpenU>> \o doc \o <<CloseU>> \o Pad(pad)

RECURSIVE StripWs(_)
StripWs(q) ==
    IF q # <<>> /\ q[Len(q)] = WsU THEN StripWs(SubSeq(q, 1, Len(q) - 1)) ELSE q

\* etree.fromstring(response.decode(encoding)): a document is well formed when
\* it is start, elements, end of root, then only whitespace.
fromstring(response) ==
    LET b == StripWs(response)
        ok == /\ Len(b) >= 3
              /\ b[1] = OpenU
              /\ b[Len(b)] = CloseU
              /\ \A i \in 2..(Len(b) - 1) : b[i].tag \notin MarkerTags
    IN  IF ok THEN [ok |-> TRUE, doc |-> SubSeq(b, 2, Len(b) - 1)]
        ELSE [ok |-> FALSE, doc |-> <<>>]

\* --------------------------------------------------------------- framing
pack_length_little_endian(n) ==
    << n % 256, (n \div 256) % 256, (n \div 65536) % 256, (n \div 16777216) % 256 >>

\* struct.pack('>L', n)
pack_length(n) ==
    << (n \div 16777216) % 256, (n \div 65536) % 256, (n \div 256) % 256, n % 256 >>

unpack_length(b) == b[1] * 16777216 + b[2] * 65536 + b[3] * 256 + b[4]

pack_message(msg) == pack_length(Len(msg)) \o msg

\* ---------------------------------------------------------------- status
get_status(code) ==
    IF code = SUCCESS THEN "Success"
    ELSE IF code = GENERIC_ERROR THEN "Unknown Message Received"
    ELSE "Unknown status"

check_status_ignoring_allow_none(code, expected, allow_none) ==
    IF code # expected THEN FishbowlError(get_status(code)) ELSE NoExc

\* check_status: the exception it raises (NoExc when it returns the message).
check_status(code, expected, allow_none) ==
    LET message == get_status(code)
    IN  IF code # expected /\ (code # None \/ ~allow_none)
        THEN FishbowlError(message)
        ELSE NoExc

\* --------------------------------------------------------------- session
\* The Fishbowl object and the sockets it created.  io is the list of
\* transport calls made by the method call in progress, each with the value
\* of connected and key at the time of the call; rx is what the last
\* send_message read.
NoRx == [got |-> FALSE, length |-> 0, body |-> <<>>, wire |-> <<>>]

\* The name of the operation a request document asks for.
RequestName(msg) == IF Len(msg) >= 2 THEN msg[2].tag ELSE "unknown"

Ev(s, ev, res, n) ==
    [ev |-> ev, res |-> res, n |-> n, conn |-> s.connected, key |-> s.key]

Log(s, ev, res, n) == [s EXCEPT !.io = Append(@, Ev(s, ev, res, n))]

Result(s, exc, ret) == [s |-> s, exc |-> exc, ret |-> ret]

require_connected_missing(s) == TRUE

require_connected(s) == s.connected

\* close with the socket closed before the fields are cleared.
close_body_socket_first(s, skip_errors, cf) ==
    LET s1 == [Log(s, "close", IF cf THEN "error" ELSE "ok", 0)
                   EXCEPT !.stream = "closed"]
        s2 == [s1 EXCEPT !.connected = FALSE, !.key = None]
    IN  IF cf /\ ~skip_errors THEN Result(s1, CloseError, None)
        ELSE Result(s2, NoExc, None)

\* close(skip_errors); cf: the socket's close() raises.
close_body(s, skip_errors, cf) ==
    LET s1 == [s EXCEPT !.connected = FALSE, !.key = None]
        s2 == [Log(s1, "close", IF cf THEN "error" ELSE "ok", 0)
                   EXCEPT !.stream = "closed"]
    IN  Result(s2, IF cf /\ ~skip_errors THEN CloseError ELSE NoExc, None)

close(s, skip_errors, cf) ==
    IF ~require_connected(s) THEN Result(s, NotConnected, None)
    ELSE close_body(s, skip_errors, cf)

\* make_stream; open: "ok", "refused" (socket created, connect() raises) or
\* "nosocket" (socket() raises).  A socket that is never closed and no longer
\* referenced by the session is counted in leaked.
make_stream(s, open) ==
    IF open = "nosocket" THEN Result(s, TransportError, None)
    ELSE IF open = "refused"
    THEN Result([Log(s, "open", "error", 0) EXCEPT !.leaked = @ + 1],
                TransportError, None)
    ELSE Result(Log(s, "open", "ok", 0), NoExc, "open")

\* The loop of send_message that reads the body: rest is what the stream
\* still delivers, ending what it does when rest is used up.
RECURSIVE recv_body(_, _, _, _, _, _)
recv_body(s, length, byte_count, response, rest, ending) ==
    IF byte_count >= length
    THEN [s |-> s, outcome |-> "ok", response |-> response]
    ELSE IF rest # <<>>
    THEN recv_body(Log(s, "recv", "ok", 1), length, byte_count + 1,
                   Append(response, Head(rest)), Tail(rest), ending)
    ELSE IF ending = "eof"
    THEN recv_body(Log(s, "recv", "ok", 0), length, byte_count + 1,
                   response, rest, ending)
    ELSE [s |-> Log(s, "recv", ending, 0), outcome |-> ending,
          response |-> response]

timeout_message_plain(received_length) == "Connection timeout"

timeout_message(received_length) ==
    IF received_length THEN "Connection timeout (after length received)"
    ELSE "Connection timeout"

\* except socket.timeout in send_message.
on_timeout(s, received_length, cf) ==
    LET c == close(s, TRUE, cf)
    IN  IF c.exc # NoExc THEN Result(c.s, c.exc, <<>>)
        ELSE Result(c.s, FishbowlError(timeout_message(received_length)), <<>>)

\* The part of send_message after the request was written.
\* env.prefix, env.body: the units the stream delivers; env.ending: what it
\* does after them; env.first: how many octets the first recv may return.
receive(s, env) ==
    LET k == IF Len(env.prefix) < env.first THEN Len(env.prefix) ELSE env.first
        packed_length == SubSeq(env.prefix, 1, k)
    IN  IF env.prefix = <<>> /\ env.ending = "timeout"
        THEN on_timeout(Log(s, "recv", "timeout", 0), FALSE, env.cf)
        ELSE IF env.prefix = <<>> /\ env.ending = "error"
        THEN Result(Log(s, "recv", "error", 0), TransportError, <<>>)
        ELSE IF Len(packed_length) # PrefixLen
        THEN Result(Log(s, "recv", "ok", k), StructError, <<>>)
        ELSE
          LET length == unpack_length(packed_length)
              s1 == [Log(s, "recv", "ok", k) EXCEPT
                        !.rx = [got |-> TRUE, length |-> length,
                                body |-> <<>>, wire |-> env.body]]
              b == recv_body(s1, length, 0, <<>>, env.body, env.ending)
              s2 == [b.s EXCEPT !.rx.body = b.response]
              x == fromstring(b.response)
          IN  IF b.outcome = "timeout" THEN on_timeout(s2, TRUE, env.cf)
              ELSE IF b.outcome = "error" THEN Result(s2, TransportError, <<>>)
              ELSE IF ~x.ok THEN Result(s2, XMLSyntaxError, <<>>)
              ELSE Result(s2, NoExc, x.doc)

send_message(s, msg, env) ==
    IF ~require_connected(s) THEN Result(s, NotConnected, <<>>)
    ELSE
      LET s0 == [s EXCEPT !.rx = NoRx, !.sent = Append(@, RequestName(msg))]
          s1 == Log(s0, "send", env.send, Len(pack_message(msg)))
      IN  IF env.send = "timeout" THEN Result(s1, SocketTimeout, <<>>)
          ELSE IF env.send = "error" THEN Result(s1, TransportError, <<>>)
          ELSE receive(s1, env)

\* -------------------------------------------------------------- requests
truthy_present(x) == x # None /\ x # Unset

truthy(x) == x # None /\ x # "" /\ x # Unset

\* The request documents built by xmlrequests: one element named after the
\* operation, carrying the session key.
Request(name, k) == Serialize(<<El(name, k, None)>>, 0)

\* ---------------------------------------------------------------- connect
status_checked_login_only(e) ==
    e.tag \in {"loginRs", "LoginRs"} /\ truthy(e.status)

status_checked(e) == e.tag \in LoginTags /\ truthy(e.status)

login_key_ok_any(k) == TRUE

login_key_ok(k) == truthy(k)

\* The for loop of connect over response.iter().
RECURSIVE scan_login(_, _)
scan_login(k, els) ==
    IF els = <<>> THEN [key |-> k, exc |-> NoExc]
    ELSE LET e == Head(els)
             k1 == IF e.tag = "Key" THEN e.text ELSE k
             x == IF status_checked(e) THEN check_status(e.status, SUCCESS, FALSE)
                  ELSE NoExc
         IN  IF x # NoExc THEN [key |-> k1, exc |-> x]
             ELSE scan_login(k1, Tail(els))

\* The try block of connect and its except clause.
login(s, env) ==
    LET s1 == [s EXCEPT !.key = None]
        r == send_message(s1, Request("LoginRq", None), env)
        scan == IF r.exc = NoExc THEN scan_login(r.s.key, r.ret)
                ELSE [key |-> r.s.key, exc |-> r.exc]
        s2 == [r.s EXCEPT !.key = scan.key]
        x == IF scan.exc # NoExc THEN scan.exc
             ELSE IF ~login_key_ok(scan.key)
             THEN FishbowlError("No login key in response")
             ELSE NoExc
        c == close(s2, TRUE, env.cf)
    IN  IF x = NoExc THEN Result(s2, NoExc, None)
        ELSE IF c.exc # NoExc THEN Result(c.s, c.exc, None)
        ELSE Result(c.s, x, None)

\* connect without the close of the previous connection.
connect_without_close(s, env) ==
    LET m == make_stream(s, env.open)
        s1 == [m.s EXCEPT !.leaked = IF m.s.stream = "open" THEN @ + 1 ELSE @,
                          !.stream = "open",
                          !.connected = TRUE]
    IN  IF m.exc # NoExc THEN m
        ELSE login(s1, env)

\* connect: close the previous connection, open the transport, mark the
\* session connected, log in.  The password digest and the host and port
\* fields only decide what make_stream dials, which env.open stands for.
connect(s, env) ==
    LET c0 == IF s.connected THEN close(s, FALSE, env.cfOld)
              ELSE Result(s, NoExc, None)
        m == make_stream(c0.s, env.open)
        s1 == [m.s EXCEPT !.leaked = IF m.s.stream = "open" THEN @ + 1 ELSE @,
                          !.stream = "open",
                          !.connected = TRUE]
    IN  IF c0.exc # NoExc THEN c0
        ELSE IF m.exc # NoExc THEN m
        ELSE login(s1, env)

\* ------------------------------------------------- guarded operations
\* for element in response.iter(tag): if status_code: check_status(...)
RECURSIVE check_elements(_, _)
check_elements(tag, els) ==
    IF els = <<>> THEN NoExc
    ELSE LET e == Head(els)
             x == IF e.tag = tag /\ truthy(e.status)
                  THEN check_status(e.status, SUCCESS, FALSE) ELSE NoExc
         IN  IF x # NoExc THEN x ELSE check_elements(tag, Tail(els))

\* The operation with a status error treated like a timeout.
inventory_closing(s, rq, rs, env) ==
    IF ~require_connected(s) THEN Result(s, NotConnected, None)
    ELSE LET r == send_message(s, Request(rq, s.key), env)
             x == check_elements(rs, r.ret)
         IN  IF r.exc # NoExc THEN r
             ELSE IF x # NoExc THEN Result(close(r.s, TRUE, FALSE).s, x, None)
             ELSE Result(r.s, x, None)

inventory(s, rq, rs, env) ==
    IF ~require_connected(s) THEN Result(s, NotConnected, None)
    ELSE LET r == send_message(s, Request(rq, s.key), env)
             x == check_elements(rs, r.ret)
         IN  IF r.exc # NoExc THEN r
             ELSE Result(r.s, x, None)

add_inventory(s, env) == inventory(s, "AddInventoryRq", "AddInventoryRs", env)

cycle_inventory(s, env) == inventory(s, "CycleCountRq", "CycleCountRs", env)

get_po_list(s, env) ==
    IF ~require_connected(s) THEN Result(s, NotConnected, <<>>)
    ELSE send_message(s, Request("GetPOListRq", s.key), env)

\* ------------------------------------------------------------ elements
\* An element value is the sequence of the element followed by its
\* descendants in document order; NoNode is the None that find returns.
RootEl == ElAt("FbiXml", None, None, 0)

Root(doc) == <<RootEl>> \o doc

EmptyElement == <<ElAt("empty", None, None, 0)>>

NoNode == <<>>

AttributeError == [type |-> "AttributeError", msg |-> "NoneType"]

Least(S) == CHOOSE x \in S : \A y \in S : x <= y

SubtreeEnd(t, k) ==
    LET stops == {m \in (k + 1)..Len(t) : t[m].depth <= t[k].depth}
    IN  IF stops = {} THEN Len(t) ELSE Least(stops) - 1

Subtree(t, k) == SubSeq(t, k, SubtreeEnd(t, k))

\* The positions of the children of the element t.
ChildIndexes(t) == {k \in 2..Len(t) : t[k].depth = t[1].depth + 1}

\* t.find(tag): the first child with that tag.
find(t, tag) ==
    LET c == {k \in ChildIndexes(t) : t[k].tag = tag}
    IN  IF c = {} THEN NoNode ELSE Subtree(t, Least(c))

\* -------------------------------------------------------- send_request
\* SimpleRequest(name, value, key)
SimpleRequest(name, value, k) ==
    Serialize(<<El(name, k, None)>>
              \o (IF value = None THEN <<>> ELSE <<ElAt("Value", value, None, 2)>>), 0)

unwrap_single_last(node) ==
    IF ChildIndexes(node) # {}
    THEN Subtree(node, CHOOSE k \in ChildIndexes(node) : \A j \in ChildIndexes(node) : j <= k)
    ELSE EmptyElement

\* if len(root): root = root[0]  else: root = etree.Element('empty')
unwrap_single(node) ==
    IF ChildIndexes(node) # {} THEN Subtree(node, Least(ChildIndexes(node)))
    ELSE EmptyElement

on_status_error_raise(x, s, silence_errors) == Result(s, x, <<>>)

\* except FishbowlError in send_request.
on_status_error(x, s, silence_errors) ==
    IF silence_errors THEN Result(s, NoExc, EmptyElement)
    ELSE Result(s, x, <<>>)

\* The part of send_request after send_message returned the document doc.
locate(s, doc, response_node_name, single, silence_errors) ==
    LET msgs == find(Root(doc), "FbiMsgsRs")
        node == IF msgs = NoNode THEN NoNode ELSE find(msgs, response_node_name)
        x == IF node = NoNode THEN AttributeError
             ELSE check_status(node[1].status, SUCCESS, TRUE)
    IN  IF ~truthy(response_node_name) THEN Result(s, NoExc, Root(doc))
        ELSE IF node = NoNode THEN Result(s, AttributeError, <<>>)
        ELSE IF x # NoExc THEN on_status_error(x, s, silence_errors)
        ELSE IF single THEN Result(s, NoExc, unwrap_single(node))
        ELSE Result(s, NoExc, node)

send_request(s, name, value, response_node_name, single, silence_errors, env) ==
    IF ~require_connected(s) THEN Result(s, NotConnected, <<>>)
    ELSE LET r == send_message(s, SimpleRequest(name, value, s.key), env)
         IN  IF r.exc # NoExc THEN Result(r.s, r.exc, <<>>)
             ELSE locate(r.s, r.ret, response_node_name, single, silence_errors)

\* ------------------------------------------------------------ environment
Frame(doc, pad) ==
    LET body == Serialize(doc, pad)
    IN  [prefix |-> pack_length(Len(body)), body |-> body]

\* The first m units of a frame.
Delivered(f, m) ==
    [prefix |-> SubSeq(f.prefix, 1, IF m < PrefixLen THEN m ELSE PrefixLen),
     body |-> SubSeq(f.body, 1, IF m < PrefixLen THEN 0 ELSE m - PrefixLen)]

Endings == {"timeout", "eof", "error"}

IoEnv(send, d, ending, first, cf) ==
    [send |-> send, prefix |-> d.prefix, body |-> d.body, ending |-> ending,
     first |-> first, cf |-> cf, open |-> "ok", cfOld |-> FALSE]

\* Every way one exchange can go for a frame: the request cannot be written;
\* the whole frame arrives; the first recv returns less than four octets;
\* the stream stops after m units.
ExchangeEnvs(f) ==
    LET n == PrefixLen + Len(f.body)
    IN  {IoEnv(snd, Delivered(f, 0), "timeout", PrefixLen, cf) :
            snd \in {"error", "timeout"}, cf \in {FALSE}}
        \cup {IoEnv("ok", Delivered(f, n), "timeout", k, cf) :
            k \in 1..PrefixLen, cf \in {FALSE}}
        \cup {IoEnv("ok", Delivered(f, m), e, PrefixLen, cf) :
            m \in 0..(n - 1), e \in Endings, cf \in {FALSE}}
        \cup {IoEnv("ok", Delivered(f, m), "timeout", PrefixLen, cf) :
            m \in 0..(n - 1), cf \in {TRUE}}

Exchanges(doc) == UNION {ExchangeEnvs(Frame(doc, pad)) : pad \in 0..MaxPad}

CleanExchange(doc) ==
    LET f == Frame(doc, 0)
    IN  IoEnv("ok", Delivered(f, PrefixLen + Len(f.body)), "timeout", PrefixLen, FALSE)

\* The exchanges the operations built on send_message are run against: the
\* request cannot be written, the whole frame arrives, the stream times out
\* before the prefix or before the last unit of the body.
OpExchanges(doc) ==
    LET f == Frame(doc, 0)
        n == PrefixLen + Len(f.body)
    IN  {CleanExchange(doc),
         IoEnv("error", Delivered(f, 0), "timeout", PrefixLen, FALSE),
         IoEnv("ok", Delivered(f, 0), "timeout", PrefixLen, FALSE),
         IoEnv("ok", Delivered(f, n - 1), "timeout", PrefixLen, FALSE)}

\* What connect can meet: the old socket failing to close, the new one
\* failing to open, and every exchange for the login response.
ConnectEnvs(exchanges) ==
    {[e EXCEPT !.cfOld = co] : e \in exchanges, co \in BOOLEAN}
    \cup {[e EXCEPT !.cfOld = co, !.cf = cn] :
            e \in {x \in exchanges : x.send = "error"}, co \in BOOLEAN, cn \in {TRUE}}
    \cup {[e EXCEPT !.open = o] :
            e \in {x \in exchanges : x.send = "error"}, o \in {"refused", "nosocket"}}

\* The login responses and the responses to later requests that Spec runs
\* against.
GoodLogins ==
    { <<El("FbiXml", None, GENERIC_ERROR), El("Key", "K1", None)>>,
      <<El("FbiMsgsRs", None, SUCCESS), El("Key", "K2", None)>> }

BadLogins ==
    { <<El("Key", "K2", None), El("loginRs", None, GENERIC_ERROR)>>,
      <<El("FbiMsgsRs", None, GENERIC_ERROR)>>,
      <<El("LoginRs", None, SUCCESS), El("Key", None, None)>>,
      <<El("FbiXml", None, GENERIC_ERROR)>> }

ReplyScenarios ==
    { <<El("FbiMsgsRs", None, SUCCESS), El("AddInventoryRs", None, SUCCESS)>>,
      <<El("FbiMsgsRs", None, SUCCESS), El("AddInventoryRs", None, GENERIC_ERROR)>>,
      <<El("FbiMsgsRs", None, SUCCESS), El("CycleCountRs", None, GENERIC_ERROR)>>,
      <<El("FbiMsgsRs", None, GENERIC_ERROR)>> }

Servers ==
    [login : GoodLogins, reply : ReplyScenarios]
    \cup [login : BadLogins,
          reply : {<<El("FbiMsgsRs", None, GENERIC_ERROR)>>}]

\* ------------------------------------------------------------------ state
\* connected, key, stream: the fields of the Fishbowl object; leaked: sockets
\* created and never closed; io, rx, sent, lastOp, lastSkip, lastExc, lastRet:
\* what the last method call did, raised and returned; server: the documents
\* the peer answers with; lazy: the lazy objects handed out; arg, out: the
\* argument and result of a pure function; callers, wire, lock: callers that
\* share the session without the atomicity of a single thread.
VARIABLES connected, key, stream, leaked, io, rx, sent, lastOp, lastSkip,
          lastArgs, lastExc, lastRet, server, lazy, arg, out, callers, wire, lock

sessionVars == <<connected, key, stream, leaked, io, rx, sent, lastOp, lastSkip,
                 lastArgs, lastExc, lastRet>>

pureVars == <<arg, out>>

concVars == <<callers, wire, lock>>

vars == <<sessionVars, server, lazy, pureVars, concVars>>

Callers == {1, 2}

NoArg == [fn |-> "none", msg |-> <<>>, code |-> None, expected |-> None,
          allow_none |-> FALSE]

NoOut == [done |-> FALSE, packed |-> <<>>, exc |-> NoExc, ret |-> ""]

\* The arguments of a call that takes none of them.
NoArgs == [node |-> None, single |-> FALSE, lazy |-> FALSE, index |-> 0]

IdleCaller ==
    [pc |-> "idle", calls |-> 0, packed_length |-> <<>>, length |-> 0,
     byte_count |-> 0, response |-> <<>>]

\* The session at the start of a call.
Session ==
    [connected |-> connected, key |-> key, stream |-> stream, leaked |-> leaked,
     io |-> <<>>, rx |-> NoRx, sent |-> <<>>]

FreshSession ==
    /\ connected = FALSE
    /\ key = Unset
    /\ stream = "unset"
    /\ leaked = 0
    /\ io = <<>>
    /\ rx = NoRx
    /\ sent = <<>>
    /\ lastOp = "init"
    /\ lastSkip = FALSE
    /\ lastArgs = NoArgs
    /\ lastExc = NoExc
    /\ lastRet = <<>>
    /\ lazy = <<>>

NoPure ==
    /\ arg = NoArg
    /\ out = NoOut

NoCallers ==
    /\ callers = [c \in Callers |-> IdleCaller]
    /\ wire = <<>>
    /\ lock = 0

Fresh == FreshSession /\ NoPure /\ NoCallers

Init ==
    /\ Fresh
    /\ server \in Servers

\* The end of a method call: the session as the call left it, the exception
\* it raised and ret, the value it returned.
Returns(op, skip, args, r, ret) ==
    /\ r.s.leaked <= MaxLeaked
    /\ connected' = r.s.connected
    /\ key' = r.s.key
    /\ stream' = r.s.stream
    /\ leaked' = r.s.leaked
    /\ io' = r.s.io
    /\ rx' = r.s.rx
    /\ sent' = r.s.sent
    /\ lastOp' = op
    /\ lastSkip' = skip
    /\ lastArgs' = args
    /\ lastExc' = r.exc
    /\ lastRet' = ret
    /\ UNCHANGED <<server, pureVars, concVars>>

Return(op, skip, r, ret) == Returns(op, skip, NoArgs, r, ret)

Commit(op, skip, r) == Return(op, skip, r, <<>>) /\ UNCHANGED lazy

Connect ==
    \E env \in ConnectEnvs(Exchanges(server.login)) :
        Commit("connect", FALSE, connect(Session, env))

Close ==
    \E skip_errors \in BOOLEAN, cf \in BOOLEAN :
        Commit("close", skip_errors, close(Session, skip_errors, cf))

SendMessage ==
    \E env \in Exchanges(server.reply) :
        LET r == send_message(Session, Request("Rq", key), env)
        IN  Return("send_message", FALSE, r, r.ret) /\ UNCHANGED lazy

AddInventory ==
    \E env \in OpExchanges(server.reply) :
        Commit("add_inventory", FALSE, add_inventory(Session, env))

CycleInventory ==
    \E env \in OpExchanges(server.reply) :
        Commit("cycle_inventory", FALSE, cycle_inventory(Session, env))

GetPoList ==
    \E env \in OpExchanges(server.reply) :
        LET r == get_po_list(Session, env)
        IN  Return("get_po_list", FALSE, r, r.ret) /\ UNCHANGED lazy

Next ==
    \/ Connect
    \/ Close
    \/ SendMessage
    \/ AddInventory
    \/ CycleInventory
    \/ GetPoList

Spec == Init /\ [][Next]_vars

\* The login handshake against every response document of up to MaxElems
\* elements: the response arrives whole, or the request cannot be written.
LoginExchanges(doc) ==
    {CleanExchange(doc),
     IoEnv("error", Delivered(Frame(doc, 0), 0), "timeout", PrefixLen, FALSE)}

InitLogin ==
    /\ Fresh
    /\ server \in [login : Docs, reply : {<<El("FbiMsgsRs", None, SUCCESS)>>}]

LoginConnect ==
    \E env \in ConnectEnvs(LoginExchanges(server.login)) :
        Commit("connect", FALSE, connect(Session, env))

NextLogin ==
    \/ LoginConnect
    \/ Close

SpecLogin == InitLogin /\ [][NextLogin]_vars

\* ------------------------------------------- requests and their status
\* send_request, add_inventory and cycle_inventory against responses whose
\* operation element carries each status value and zero to two children.
PartEl(num) == <<ElAt("LightPart", None, None, 3), ElAt("Num", num, None, 4)>>

RsDoc(st, kids) ==
    <<El("FbiMsgsRs", None, SUCCESS), ElAt("LightPartListRs", None, st, 2)>> \o kids

RsDocs ==
    {RsDoc(st, kids) : st \in StatusValues,
                       kids \in {<<>>, PartEl("N1"), PartEl("N2") \o PartEl("N1")}}
    \cup {<<El("FbiMsgsRs", None, GENERIC_ERROR)>>,
          <<El("Ticket", None, None)>>}

InventoryDoc(tag, st) ==
    <<El("FbiMsgsRs", None, SUCCESS), ElAt(tag, None, st, 2)>>

InventoryDocs ==
    {InventoryDoc(tag, st) : tag \in {"AddInventoryRs", "CycleCountRs"},
                             st \in StatusValues}
    \cup {<<El("FbiMsgsRs", None, GENERIC_ERROR)>>,
          InventoryDoc("AddInventoryRs", SUCCESS)
              \o <<ElAt("CycleCountRs", None, SUCCESS, 2),
                   ElAt("AddInventoryRs", None, GENERIC_ERROR, 2)>>}

DefaultLogin == <<El("FbiMsgsRs", None, SUCCESS), El("Key", "K2", None)>>

RequestServers ==
    {[login |-> DefaultLogin, reply |-> InventoryDoc("AddInventoryRs", SUCCESS),
      rs |-> d] : d \in RsDocs}
    \cup {[login |-> DefaultLogin, reply |-> d, rs |-> RsDoc(SUCCESS, <<>>)] :
            d \in InventoryDocs}

InitRequests ==
    /\ FreshSession
    /\ NoPure
    /\ NoCallers
    /\ server \in RequestServers

SendRequest ==
    \E response_node_name \in {None, "LightPartListRs"}, single \in BOOLEAN,
       silence_errors \in BOOLEAN, env \in OpExchanges(server.rs) :
        LET r == send_request(Session, "LightPartListRq", None, response_node_name,
                              single, silence_errors, env)
        IN  /\ Returns("send_request", silence_errors,
                       [NoArgs EXCEPT !.node = response_node_name, !.single = single],
                       r, r.ret)
            /\ UNCHANGED lazy

NextRequests ==
    \/ LoginConnect
    \/ Close
    \/ SendMessage
    \/ SendRequest
    \/ AddInventory
    \/ CycleInventory

SpecRequests == InitRequests /\ [][NextRequests]_vars

\* ------------------------------------------------------- lazy objects
\* The objects module: an object is backed by a parsed subtree or by a
\* resolver (a deferred send_request) and a name; failed: the resolver has
\* raised.
Pending(kind, name) ==
    [kind |-> kind, name |-> name, resolved |-> FALSE, data |-> <<>>, failed |-> FALSE]

Resolved(kind, name, data) ==
    [kind |-> kind, name |-> name, resolved |-> TRUE, data |-> data, failed |-> FALSE]

resolve_caching_failure(o, r) ==
    [o EXCEPT !.resolved = TRUE, !.data = r.ret, !.failed = @ \/ r.exc # NoExc]

\* resolve(): the outcome r of the resolver is cached unless it raised.
resolve(o, r) ==
    IF r.exc # NoExc THEN [o EXCEPT !.failed = TRUE]
    ELSE [o EXCEPT !.resolved = TRUE, !.data = r.ret]

\* part.get('Num'): the text of the child of that name.
PartGet(node, field) ==
    LET c == find(node, field)
    IN  IF c = NoNode THEN None ELSE c[1].text

\* The positions, in document order, of the elements t.iter(tag) yields.
iter(t, tag) == SelectSeq([i \in 1..Len(t) |-> i], LAMBDA i : t[i].tag = tag)

\* One exchange for doc: clean, or with the fault of that kind.
Faulted(doc, kind) ==
    LET f == Frame(doc, 0)
        n == PrefixLen + Len(f.body)
    IN  IF kind = "error"
        THEN IoEnv("error", Delivered(f, 0), "timeout", PrefixLen, FALSE)
        ELSE IF kind = "timeout"
        THEN IoEnv("ok", Delivered(f, n - 1), "timeout", PrefixLen, FALSE)
        ELSE CleanExchange(doc)

FaultKinds == {"clean", "error", "timeout"}

\* partial(self.send_request, 'CustomerGetRq' / 'ProductGetRq', ...)
ResolverRq(kind) == IF kind = "Customer" THEN "CustomerGetRq" ELSE "ProductGetRq"

ResolverRs(kind) == IF kind = "Customer" THEN "CustomerGetRs" ELSE "ProductGetRs"

resolver(s, kind, name, env) ==
    send_request(s, ResolverRq(kind), name, ResolverRs(kind), TRUE, FALSE, env)

\* A field access on the object o.
access(s, o, env) ==
    IF o.resolved THEN [r |-> Result(s, NoExc, o.data), o |-> o]
    ELSE LET r == resolver(s, o.kind, o.name, env)
         IN  [r |-> r, o |-> resolve(o, r)]

get_customers(s, env) ==
    IF ~require_connected(s) THEN Result(s, NotConnected, <<>>)
    ELSE LET r == send_request(s, "CustomerNameListRq", None, None, TRUE, FALSE, env)
             msgs == find(r.ret, "FbiMsgsRs")
             tags == iter(msgs, "Name")
         IN  IF r.exc # NoExc THEN Result(r.s, r.exc, <<>>)
             ELSE IF msgs = NoNode THEN Result(r.s, AttributeError, <<>>)
             ELSE Result(r.s, NoExc,
                         [i \in 1..Len(tags) |-> Pending("Customer", msgs[tags[i]].text)])

get_parts(s, env) ==
    IF ~require_connected(s) THEN Result(s, NotConnected, <<>>)
    ELSE LET r == send_request(s, "LightPartListRq", None, "LightPartListRs",
                               FALSE, FALSE, env)
             nodes == iter(r.ret, "LightPart")
         IN  IF r.exc # NoExc THEN Result(r.s, r.exc, <<>>)
             ELSE Result(r.s, NoExc,
                         [i \in 1..Len(nodes) |-> Subtree(r.ret, nodes[i])])

skip_part_unnumbered(part_number, added) == ~truthy(part_number)

\* if not part_number or part_number in added: continue
skip_part(part_number, added) ==
    ~truthy(part_number) \/ \E i \in 1..Len(added) : added[i] = part_number

\* The loop of get_products; replies: the document the server answers a
\* ProductGetRq for each number with; fault: the sub-request that meets a
\* transport fault, and the fault; n: the sub-requests made so far.
\* The value of F at the value of the call e.
After(F(_), e) == CHOOSE v \in {F(r) : r \in {e}} : TRUE

RECURSIVE products_loop(_, _, _, _, _, _, _, _)
products_loop(s, parts, added, products, is_lazy, replies, fault, n) ==
    IF parts = <<>> THEN Result(s, NoExc, products)
    ELSE
      LET part_number == PartGet(Head(parts), "Num")
          kind == IF n + 1 = fault.at THEN fault.kind ELSE "clean"
          \* product_node = get_product() and the rest of the iteration
          Fetched(r) ==
              IF r.exc # NoExc THEN Result(r.s, r.exc, <<>>)
              ELSE IF Len(r.ret) = 1
              THEN products_loop(r.s, Tail(parts), added, products, is_lazy,
                                 replies, fault, n + 1)
              ELSE products_loop(r.s, Tail(parts), Append(added, part_number),
                                 Append(products,
                                        Resolved("Product", part_number, r.ret)),
                                 is_lazy, replies, fault, n + 1)
      IN  IF skip_part(part_number, added)
          THEN products_loop(s, Tail(parts), added, products, is_lazy,
                             replies, fault, n)
          ELSE IF is_lazy
          THEN products_loop(s, Tail(parts), Append(added, part_number),
                             Append(products, Pending("Product", part_number)),
                             is_lazy, replies, fault, n)
          ELSE After(Fetched, resolver(s, "Product", part_number,
                                       Faulted(replies[part_number], kind)))

get_products(s, is_lazy, env, replies, fault) ==
    LET Listed(p) ==
            IF p.exc # NoExc THEN Result(p.s, p.exc, <<>>)
            ELSE products_loop(p.s, p.ret, <<>>, <<>>, is_lazy, replies, fault, 0)
    IN  IF ~require_connected(s) THEN Result(s, NotConnected, <<>>)
        ELSE After(Listed, get_parts(s, env))

\* ------------------------------------------------------------- catalog
\* get_customers, get_products and the field accesses of the objects they
\* return, against a server that lists up to MaxParts parts and names.
Labels == {"N1", "N2"}

PartNums == Labels \cup {None}

RECURSIVE Flatten(_)
Flatten(ss) == IF ss = <<>> THEN <<>> ELSE Head(ss) \o Flatten(Tail(ss))

PartsDoc(nums) == RsDoc(SUCCESS, Flatten([i \in 1..Len(nums) |-> PartEl(nums[i])]))

NamesDoc(names) ==
    <<El("FbiMsgsRs", None, SUCCESS), ElAt("CustomerNameListRs", None, SUCCESS, 2),
      ElAt("Customers", None, None, 3)>>
    \o [i \in 1..Len(names) |-> ElAt("Name", names[i], None, 4)]

SubKinds == {"full", "none", "error"}

\* The response to a CustomerGetRq / ProductGetRq for label.
SubDoc(kind, label, how) ==
    <<El("FbiMsgsRs", None, SUCCESS),
      ElAt(ResolverRs(kind), None, IF how = "error" THEN GENERIC_ERROR ELSE SUCCESS, 2)>>
    \o (IF how \in {"full", "bare"} THEN <<ElAt(kind, None, None, 3)>> ELSE <<>>)
    \o (IF how = "full" THEN <<ElAt("Num", label, None, 4)>> ELSE <<>>)

Subs == [Labels -> SubKinds] \cup {[l \in Labels |-> "bare"]}

DefaultParts == PartsDoc(<<"N1", "N2">>)

DefaultNames == NamesDoc(<<"N1">>)

AllFull == [l \in Labels |-> "full"]

CatalogServers ==
    {[login |-> DefaultLogin, parts |-> PartsDoc(nums), names |-> DefaultNames,
      sub |-> AllFull] : nums \in SeqsUpTo(PartNums, MaxParts)}
    \cup {[login |-> DefaultLogin, parts |-> DefaultParts, names |-> DefaultNames,
           sub |-> sub] : sub \in Subs}
    \cup {[login |-> DefaultLogin, parts |-> DefaultParts, names |-> d,
           sub |-> AllFull] :
            d \in {NamesDoc(names) : names \in SeqsUpTo(Labels, MaxParts)}
                  \cup {<<El("Ticket", None, None)>>}}

InitCatalog ==
    /\ FreshSession
    /\ NoPure
    /\ NoCallers
    /\ server \in CatalogServers

\* The documents the server answers the sub-requests of that kind with.
Replies(kind) ==
    [l \in PartNums |->
        IF l = None THEN SubDoc(kind, l, "none") ELSE SubDoc(kind, l, server.sub[l])]

Keep(r) == lazy' = IF r.exc = NoExc THEN r.ret ELSE lazy

\* connect with the transport opening and the login response arriving whole.
Login ==
    \E env \in {[CleanExchange(server.login) EXCEPT !.cfOld = co] : co \in BOOLEAN} :
        Commit("connect", FALSE, connect(Session, env))

GetCustomers ==
    \E kind \in FaultKinds :
        LET r == get_customers(Session, Faulted(server.names, kind))
        IN  Return("get_customers", FALSE, r, <<>>) /\ Keep(r)

GetProducts ==
    \E is_lazy \in BOOLEAN, kind \in FaultKinds, at \in 0..MaxParts,
       sub \in FaultKinds \ {"clean"} :
        LET r == get_products(Session, is_lazy, Faulted(server.parts, kind),
                              Replies("Product"), [at |-> at, kind |-> sub])
        IN  /\ at # 0 => (~is_lazy /\ kind = "clean")
            /\ at = 0 => sub = "error"
            /\ Returns("get_products", FALSE, [NoArgs EXCEPT !.lazy = is_lazy],
                       r, <<>>)
            /\ Keep(r)

Access ==
    \E i \in 1..Len(lazy), kind \in FaultKinds :
        LET o == lazy[i]
            a == access(Session, o, Faulted(Replies(o.kind)[o.name], kind))
        IN  /\ o.resolved => kind = "clean"
            /\ Returns("access", FALSE, [NoArgs EXCEPT !.index = i], a.r, <<>>)
            /\ lazy' = [lazy EXCEPT ![i] = a.o]

NextCatalog ==
    \/ Login
    \/ Close
    \/ GetCustomers
    \/ GetProducts
    \/ Access

SpecCatalog == InitCatalog /\ [][NextCatalog]_vars

\* --------------------------------------------------- concurrent callers
\* Two callers run send_message on one connected session, each step of the
\* method being one step of the caller.  wire holds the octets the server
\* has written and no caller has read, each with the caller whose request
\* it answers.  lock is the mutex of the callers: NoMutex when they use
\* none, 0 when it is free, else the caller that holds it.
NoMutex == -1

Octet(c, v) == [owner |-> c, v |-> v]

\* The framed response to the request of caller c.
ResponseTo(c) ==
    LET body == server.bodies[c]
        f == pack_length(Len(body)) \o body
    IN  [i \in 1..Len(f) |-> Octet(c, f[i])]

Values(octets) == [i \in 1..Len(octets) |-> octets[i].v]

body_done_early(byte_count, length) == byte_count + 1 >= length

\* while byte_count < length
body_done(byte_count, length) == byte_count >= length

InFlight == {"send", "prefix", "body"}

Release(c) == lock' = IF lock = c THEN 0 ELSE lock

Step(c, caller) == callers' = [callers EXCEPT ![c] = caller]

ConcurrentServers ==
    {[bodies |-> b] : b \in [Callers -> SeqsUpTo({0, 1}, MaxBody) \ {<<>>}]}

InitConcurrent ==
    /\ connected = TRUE
    /\ key = "K2"
    /\ stream = "open"
    /\ leaked = 0
    /\ io = <<>>
    /\ rx = NoRx
    /\ sent = <<>>
    /\ lastOp = "connect"
    /\ lastSkip = FALSE
    /\ lastArgs = NoArgs
    /\ lastExc = NoExc
    /\ lastRet = <<>>
    /\ lazy = <<>>
    /\ NoPure
    /\ callers = [c \in Callers |-> IdleCaller]
    /\ wire = <<>>
    /\ lock \in {NoMutex, 0}
    /\ server \in ConcurrentServers

\* A caller enters send_message (taking the mutex when the callers use one);
\* require_connected raises when the session is closed.
CallerBegin(c) ==
    /\ callers[c].pc \notin InFlight
    /\ callers[c].calls < MaxCalls
    /\ lock \in {NoMutex, 0}
    /\ Step(c, [IdleCaller EXCEPT
                  !.pc = IF require_connected([connected |-> connected])
                         THEN "send" ELSE "failed",
                  !.calls = callers[c].calls + 1])
    /\ lock' = IF lock = 0 /\ connected THEN c ELSE lock
    /\ UNCHANGED <<sessionVars, server, lazy, pureVars, wire>>

\* self.stream.send(self.pack_message(msg)); the server answers.
CallerSend(c) ==
    /\ callers[c].pc = "send"
    /\ connected
    /\ Step(c, [callers[c] EXCEPT !.pc = "prefix"])
    /\ wire' = wire \o ResponseTo(c)
    /\ UNCHANGED <<sessionVars, server, lazy, pureVars, lock>>

\* packed_length = self.stream.recv(4); length = struct.unpack(...)
CallerRecvPrefix(c) ==
    /\ callers[c].pc = "prefix"
    /\ connected
    /\ wire # <<>>
    /\ LET k == IF Len(wire) < PrefixLen THEN Len(wire) ELSE PrefixLen
           packed_length == SubSeq(wire, 1, k)
       IN  /\ wire' = SubSeq(wire, k + 1, Len(wire))
           /\ IF k = PrefixLen
              THEN /\ Step(c, [callers[c] EXCEPT
                                 !.pc = "body",
                                 !.packed_length = packed_length,
                                 !.length = unpack_length(Values(packed_length))])
                   /\ UNCHANGED lock
              ELSE /\ Step(c, [callers[c] EXCEPT
                                 !.pc = "failed",
                                 !.packed_length = packed_length])
                   /\ Release(c)
    /\ UNCHANGED <<sessionVars, server, lazy, pureVars>>

\* byte = self.stream.recv(1); byte_count += 1; response += byte
CallerRecvByte(c) ==
    /\ callers[c].pc = "body"
    /\ connected
    /\ ~body_done(callers[c].byte_count, callers[c].length)
    /\ wire # <<>>
    /\ Step(c, [callers[c] EXCEPT !.byte_count = @ + 1,
                                   !.response = Append(@, Head(wire))])
    /\ wire' = Tail(wire)
    /\ UNCHANGED <<sessionVars, server, lazy, pureVars, lock>>

\* The loop ends and the response is returned.
CallerFinish(c) ==
    /\ callers[c].pc = "body"
    /\ body_done(callers[c].byte_count, callers[c].length)
    /\ Step(c, [callers[c] EXCEPT !.pc = "done"])
    /\ Release(c)
    /\ UNCHANGED <<sessionVars, server, lazy, pureVars, wire>>

\* except socket.timeout: nothing arrives, and the handler closes the
\* session.
CallerTimeout(c) ==
    /\ callers[c].pc \in {"prefix", "body"}
    /\ connected
    /\ wire = <<>>
    /\ callers[c].pc = "body" =>
          ~body_done(callers[c].byte_count, callers[c].length)
    /\ Step(c, [callers[c] EXCEPT !.pc = "timeout"])
    /\ connected' = FALSE
    /\ key' = None
    /\ stream' = "closed"
    /\ Release(c)
    /\ UNCHANGED <<leaked, io, rx, sent, lastOp, lastSkip, lastArgs, lastExc,
                   lastRet, server, lazy, pureVars, wire>>

\* A transport call on the socket another caller has closed raises.
CallerFail(c) ==
    /\ callers[c].pc \in InFlight
    /\ ~connected
    /\ callers[c].pc = "body" =>
          ~body_done(callers[c].byte_count, callers[c].length)
    /\ Step(c, [callers[c] EXCEPT !.pc = "failed"])
    /\ Release(c)
    /\ UNCHANGED <<sessionVars, server, lazy, pureVars, wire>>

NextConcurrent ==
    \E c \in Callers :
        \/ CallerBegin(c)
        \/ CallerSend(c)
        \/ CallerRecvPrefix(c)
        \/ CallerRecvByte(c)
        \/ CallerFinish(c)
        \/ CallerTimeout(c)
        \/ CallerFail(c)

SpecConcurrent == InitConcurrent /\ [][NextConcurrent]_vars

\* ------------------------------------------------- the pure functions
\* pack_message and check_status applied to arguments drawn in Init.
PayloadOctets == {0, 10, 255}

Fill(n) == [i \in 1..n |-> 10]

Payloads ==
    SeqsUpTo(PayloadOctets, MaxPayload) \cup {Fill(n) : n \in {255, 256, 257, 65536}}

StatusCodes == {None, "", SUCCESS, GENERIC_ERROR, "1002", "1004", "9999"}

PackArgs == {[NoArg EXCEPT !.fn = "pack", !.msg = m] : m \in Payloads}

CheckArgs ==
    {[NoArg EXCEPT !.fn = "check", !.code = c, !.expected = e, !.allow_none = a] :
        c \in StatusCodes, e \in {SUCCESS, GENERIC_ERROR}, a \in BOOLEAN}

InitPure ==
    /\ FreshSession
    /\ NoCallers
    /\ server \in {s \in Servers : s.login \in BadLogins /\ Len(s.login) = 1}
    /\ arg \in PackArgs \cup CheckArgs
    /\ out = NoOut

PackMessage ==
    /\ arg.fn = "pack"
    /\ ~out.done
    /\ out' = [NoOut EXCEPT !.done = TRUE, !.packed = pack_message(arg.msg)]
    /\ UNCHANGED <<sessionVars, server, lazy, arg, concVars>>

CheckStatus ==
    /\ arg.fn = "check"
    /\ ~out.done
    /\ LET x == check_status(arg.code, arg.expected, arg.allow_none)
       IN  out' = [NoOut EXCEPT !.done = TRUE, !.exc = x,
                                !.ret = IF x = NoExc THEN get_status(arg.code) ELSE ""]
    /\ UNCHANGED <<sessionVars, server, lazy, arg, concVars>>

NextPure ==
    \/ PackMessage
    \/ CheckStatus

SpecPure == InitPure /\ [][NextPure]_vars

\* ----------------------------------------------------------------- claims
GuardedOps ==
    {"close", "send_message", "add_inventory", "cycle_inventory", "get_po_list"}

ExchangeOps ==
    {"send_message", "add_inventory", "cycle_inventory", "get_po_list"}

IoHas(ev, res) == \E i \in 1..Len(io) : io[i].ev = ev /\ io[i].res = res

\* C1: a guarded operation called while connected is false raises
\* 'Not connected' without any transport call, and leaves connected, key and
\* stream as they were.
C1_GuardBeforeIO ==
    [][(~connected /\ lastOp' \in GuardedOps)
         => (/\ lastExc' = NotConnected
             /\ io' = <<>>
             /\ UNCHANGED <<connected, key, stream>>)]_vars

C1_Witness ==
    /\ lastOp = "send_message"
    /\ ~connected
    /\ stream = "closed"
    /\ lastExc = NotConnected
    /\ io = <<>>

\* The login response reached connect: it was read whole and parsed.
LoginReceived ==
    /\ lastOp = "connect"
    /\ rx.got
    /\ rx.body = Serialize(server.login, 0)

KeyIndexes(doc) == {i \in 1..Len(doc) : doc[i].tag = "Key"}

LastKeyText(doc) ==
    IF KeyIndexes(doc) = {} THEN None
    ELSE doc[CHOOSE i \in KeyIndexes(doc) : \A j \in KeyIndexes(doc) : j <= i].text

HasNonEmptyKey(doc) == \E i \in KeyIndexes(doc) : truthy(doc[i].text)

PresentStatusesSucceed(doc) ==
    \A i \in 1..Len(doc) :
        (doc[i].tag \in LoginTags /\ doc[i].status # None) => doc[i].status = SUCCESS

NonEmptyStatusesSucceed(doc) ==
    \A i \in 1..Len(doc) :
        (doc[i].tag \in LoginTags /\ doc[i].status \notin {None, ""})
            => doc[i].status = SUCCESS

NoLoginKey == FishbowlError("No login key in response")

\* C2 as stated: connect returns normally exactly when the response has a Key
\* element with non-empty text and every statusCode present on a login tag is
\* SUCCESS; then connected holds and key is the text of the Key element; a
\* response without a key fails with 'No login key in response'.
C2_AsStated ==
    LoginReceived =>
        /\ (lastExc = NoExc) <=>
              (HasNonEmptyKey(server.login) /\ PresentStatusesSucceed(server.login))
        /\ lastExc = NoExc =>
              (connected /\ \E i \in KeyIndexes(server.login) : server.login[i].text = key)
        /\ (KeyIndexes(server.login) = {} /\ PresentStatusesSucceed(server.login))
              => lastExc = NoLoginKey

\* C2 amended: when the login response is received, connect returns normally
\* exactly when the last Key element has non-empty text and every non-empty
\* statusCode on a login tag is SUCCESS; then connected holds and key is the
\* text of the last Key element; with no non-empty last key and no failing
\* status the error is 'No login key in response' and the session is
\* disconnected.
C2_LoginAccepts ==
    LoginReceived =>
        /\ (lastExc = NoExc) <=>
              (truthy(LastKeyText(server.login)) /\ NonEmptyStatusesSucceed(server.login))
        /\ lastExc = NoExc => (connected /\ key = LastKeyText(server.login))
        /\ (~truthy(LastKeyText(server.login)) /\ NonEmptyStatusesSucceed(server.login))
              => (lastExc = NoLoginKey /\ ~connected)

C2_Witness ==
    /\ LoginReceived
    /\ lastExc = NoExc
    /\ connected
    /\ key = "K2"
    /\ Len(server.login) = 2
    /\ server.login[2].tag = "FbiMsgsRs"
    /\ server.login[2].status = SUCCESS

\* A socket created during the call was closed later in the call.
OpenedSocketClosed ==
    \A i \in 1..Len(io) :
        io[i].ev = "open" => \E j \in (i + 1)..Len(io) : io[j].ev = "close"

\* C3: after connect fails for any reason, connected is false, no key is held
\* and the socket opened for the attempt has been closed.
C3_FailedLoginClosed ==
    (lastOp = "connect" /\ lastExc # NoExc) =>
        /\ ~connected
        /\ ~truthy(key)
        /\ stream # "open"
        /\ OpenedSocketClosed

\* C4: when connect fails after it started opening the transport, the
\* connection is force-closed and the exception that reaches the caller is
\* the original failure, not one raised by the cleanup close.
C4_OriginalFailure ==
    (lastOp = "connect" /\ lastExc # NoExc /\ \E i \in 1..Len(io) : io[i].ev = "open") =>
        /\ OpenedSocketClosed
        /\ lastExc # NotConnected
        /\ lastExc # CloseError

\* C5: connected implies a non-empty key, and connected becomes true only by
\* a connect that returns normally.
C5_ConnectedHasKey ==
    /\ [](connected => truthy(key))
    /\ [][(~connected /\ connected') => (lastOp' = "connect" /\ lastExc' = NoExc)]_vars

C5_Witness ==
    /\ connected
    /\ key = "K1"
    /\ lastOp = "connect"
    /\ lastExc = NoExc

\* A recv of the call returned the four octets of the length prefix.
PrefixRead == \E i \in 1..Len(io) : io[i].ev = "recv" /\ io[i].n = PrefixLen

\* C6: a read timeout in send_message closes the connection, close errors
\* suppressed, and raises 'Connection timeout (after length received)' when
\* the length prefix had been read and 'Connection timeout' otherwise.
C6_TimeoutCloses ==
    (lastOp \in ExchangeOps /\ IoHas("recv", "timeout")) =>
        /\ ~connected
        /\ stream = "closed"
        /\ lastExc = FishbowlError(IF PrefixRead
                                   THEN "Connection timeout (after length received)"
                                   ELSE "Connection timeout")

C6_Witness ==
    /\ lastOp = "send_message"
    /\ IoHas("recv", "timeout")
    /\ IoHas("close", "error")
    /\ PrefixRead
    /\ ~connected
    /\ lastExc = FishbowlError("Connection timeout (after length received)")

TransportFailures == {TransportError, SocketTimeout, StructError}

\* C7: when send_message raises for a transport reason (failed write, failed
\* or short read, peer closing, timeout) the session is disconnected.
C7_TransportFailureCloses ==
    (/\ lastOp = "send_message"
     /\ \/ lastExc \in TransportFailures
        \/ IoHas("recv", "timeout")
        \/ IoHas("recv", "error")
        \/ IoHas("send", "error")) => ~connected

\* C8: when send_message returns normally, the body it parsed is exactly
\* length units long and is the units that followed the prefix on the stream.
C8_ExactBody ==
    (lastOp = "send_message" /\ lastExc = NoExc) =>
        /\ rx.got
        /\ Len(rx.body) = rx.length
        /\ Len(rx.wire) >= rx.length
        /\ rx.body = SubSeq(rx.wire, 1, rx.length)

\* C9: close(skip_errors=True) on a disconnected session returns normally and
\* leaves the session disconnected.
C9_CloseIdempotent ==
    [][(~connected /\ lastOp' = "close" /\ lastSkip')
         => (lastExc' = NoExc /\ ~connected')]_vars

\* C10: close on a connected session clears connected and key before the
\* socket close is attempted; if the socket close fails the session is still
\* disconnected without key, and the failure propagates exactly when
\* skip_errors is false.
C10_ClearBeforeClose ==
    [][(connected /\ lastOp' = "close") =>
         /\ ~connected'
         /\ key' = None
         /\ Len(io') = 1
         /\ io'[1].ev = "close"
         /\ io'[1].conn = FALSE
         /\ io'[1].key = None
         /\ lastExc' = IF io'[1].res = "error" /\ ~lastSkip' THEN CloseError ELSE NoExc]_vars

C10_Witness ==
    /\ lastOp = "close"
    /\ ~lastSkip
    /\ IoHas("close", "error")
    /\ lastExc = CloseError
    /\ ~connected
    /\ key = None

\* The value of a sequence of octets read as an unsigned big-endian integer.
RECURSIVE BigEndian(_)
BigEndian(b) ==
    IF b = <<>> THEN 0
    ELSE BigEndian(SubSeq(b, 1, Len(b) - 1)) * 256 + b[Len(b)]

\* C11: pack_message(P) is 4 + len(P) octets long, its first four octets read
\* as an unsigned big-endian integer are len(P) (and are what send_message
\* unpacks), and the rest is P unchanged.
C11_FramingRoundTrip ==
    (arg.fn = "pack" /\ out.done) =>
        /\ Len(out.packed) = PrefixLen + Len(arg.msg)
        /\ \A i \in 1..PrefixLen : out.packed[i] \in 0..255
        /\ BigEndian(SubSeq(out.packed, 1, PrefixLen)) = Len(arg.msg)
        /\ unpack_length(SubSeq(out.packed, 1, PrefixLen)) = Len(arg.msg)
        /\ SubSeq(out.packed, PrefixLen + 1, Len(out.packed)) = arg.msg

C11_Witness ==
    /\ arg.fn = "pack"
    /\ out.done
    /\ Len(arg.msg) = 256
    /\ SubSeq(out.packed, 1, PrefixLen) = <<0, 0, 1, 0>>

\* C12: check_status raises a FishbowlError exactly when code # expected and
\* (code is present or allow_none is false); with expected SUCCESS every
\* present code other than SUCCESS raises, SUCCESS never raises, a missing
\* code raises exactly when allow_none is false; when it does not raise it
\* returns the registry message of the code.
C12_CheckStatus ==
    (arg.fn = "check" /\ out.done) =>
        LET raised == out.exc # NoExc
        IN  /\ raised <=> (arg.code # arg.expected /\ (arg.code # None \/ ~arg.allow_none))
            /\ raised => out.exc.type = "FishbowlError"
            /\ arg.expected = SUCCESS =>
                  /\ arg.code \notin {None, SUCCESS} => raised
                  /\ arg.code = SUCCESS => ~raised
                  /\ arg.code = None => (raised <=> ~arg.allow_none)
            /\ ~raised => out.ret = get_status(arg.code)

C12_Witness ==
    /\ arg.fn = "check"
    /\ out.done
    /\ arg.code = None
    /\ arg.expected = SUCCESS
    /\ arg.allow_none
    /\ out.exc = NoExc

\* --------------------------------------------------------------------
\* The document the last exchange delivered, when it delivered one whole.
ExchangeDone ==
    /\ rx.got
    /\ \A i \in 1..Len(io) : io[i].res = "ok"
    /\ fromstring(rx.body).ok

\* The element that find('FbiMsgsRs').find(response_node_name) locates.
Located ==
    LET root == Root(fromstring(rx.body).doc)
        msgs == {i \in 2..Len(root) : root[i].tag = "FbiMsgsRs" /\ root[i].depth = 1}
        m == Least(msgs)
        nodes == {i \in (m + 1)..SubtreeEnd(root, m) :
                     root[i].tag = lastArgs.node /\ root[i].depth = 2}
    IN  IF msgs = {} \/ nodes = {} THEN NoNode
        ELSE Subtree(root, Least(nodes))

\* C13: send_request with a response_node_name returns the located element
\* when its statusCode is SUCCESS or absent (its first child, or an empty
\* placeholder when it has none, under single=true); a present statusCode
\* other than SUCCESS gives an empty placeholder without an exception under
\* silence_errors=true and raises the status error otherwise.
C13_SendRequestResult ==
    (lastOp = "send_request" /\ truthy(lastArgs.node) /\ ExchangeDone
        /\ Located # NoNode) =>
        LET st == Located[1].status
        IN  /\ st \in {SUCCESS, None} =>
                  /\ lastExc = NoExc
                  /\ ~lastArgs.single => lastRet = Located
                  /\ (lastArgs.single /\ Len(Located) > 1) =>
                        lastRet = Subtree(Located, 2)
                  /\ (lastArgs.single /\ Len(Located) = 1) =>
                        lastRet = EmptyElement
            /\ (st \notin {SUCCESS, None} /\ lastSkip) =>
                  lastExc = NoExc /\ lastRet = EmptyElement
            /\ (st \notin {SUCCESS, None} /\ ~lastSkip) =>
                  lastExc = FishbowlError(get_status(st))

C13_Witness ==
    /\ lastOp = "send_request"
    /\ ExchangeDone
    /\ lastArgs.single
    /\ Located = Tail(RsDoc(SUCCESS, PartEl("N2") \o PartEl("N1")))
    /\ lastRet = PartEl("N2")

\* --------------------------------------------------------------------
StatusRaisers == {"send_request", "add_inventory", "cycle_inventory"}

\* The response returned by send_message carries a non-success status code.
CarriesFailure(doc) ==
    \E i \in 1..Len(doc) : doc[i].status \notin {None, SUCCESS}

\* C14: a status error of send_request, add_inventory or cycle_inventory,
\* and a response with a non-success status code returned by send_message,
\* leave connected true, the key unchanged and the stream open.
C14_StatusErrorKeepsSession ==
    [][((connected /\ ExchangeDone'
          /\ \/ lastOp' \in StatusRaisers /\ lastExc'.type = "FishbowlError"
             \/ lastOp' = "send_message" /\ lastExc' = NoExc
                  /\ CarriesFailure(lastRet'))
        => /\ connected'
           /\ key' = key
           /\ stream' = stream
           /\ stream' = "open"
           /\ ~IoHas("close", "ok")' /\ ~IoHas("close", "error")')]_vars

C14_Witness ==
    /\ lastOp = "add_inventory"
    /\ ExchangeDone
    /\ lastExc = FishbowlError(get_status(GENERIC_ERROR))
    /\ connected
    /\ key = "K2"

\* --------------------------------------------------------------------
InventoryTag ==
    IF lastOp = "add_inventory" THEN "AddInventoryRs" ELSE "CycleCountRs"

\* Some element of the received response that the inventory operation
\* looks at carries a non-empty statusCode different from SUCCESS.
SomeFailingStatus ==
    LET doc == fromstring(rx.body).doc
    IN  \E i \in 1..Len(doc) :
            /\ doc[i].tag = InventoryTag
            /\ doc[i].status \notin {None, "", SUCCESS}

StatusRaised == lastExc.type = "FishbowlError"

InventoryRaisesIff ==
    (lastOp \in {"add_inventory", "cycle_inventory"} /\ ExchangeDone) =>
        /\ StatusRaised <=> SomeFailingStatus
        /\ ~StatusRaised => lastExc = NoExc

RequestLocated ==
    /\ lastOp = "send_request"
    /\ truthy(lastArgs.node)
    /\ ExchangeDone
    /\ Located # NoNode

\* C20 as stated: send_request raises on every present statusCode other
\* than SUCCESS.
C20_AsStated ==
    /\ InventoryRaisesIff
    /\ RequestLocated =>
          /\ StatusRaised <=> Located[1].status \notin {None, SUCCESS}
          /\ ~StatusRaised => lastExc = NoExc

\* C20: add_inventory and cycle_inventory raise a status error exactly when
\* a matching element carries a non-empty statusCode other than SUCCESS;
\* send_request with a response_node_name accepts only an absent statusCode
\* or SUCCESS, and on any other present value raises the status error, or
\* under silence_errors=true returns the empty placeholder instead of the
\* element.
C20_StatusAsymmetry ==
    /\ InventoryRaisesIff
    /\ RequestLocated =>
          LET failing == Located[1].status \notin {None, SUCCESS}
          IN  /\ (failing /\ ~lastSkip) => StatusRaised
              /\ (failing /\ lastSkip) =>
                    lastExc = NoExc /\ lastRet = EmptyElement
              /\ ~failing => lastExc = NoExc /\ lastRet # <<>>
              /\ (~failing /\ ~lastArgs.single) => lastRet = Located

C20_Witness ==
    /\ lastOp = "cycle_inventory"
    /\ ExchangeDone
    /\ fromstring(rx.body).doc = InventoryDoc("CycleCountRs", "")
    /\ lastExc = NoExc
    /\ connected

\* --------------------------------------------------------------------
\* The texts of the elements of doc with that tag, in document order.
ListedTexts(doc, tag) ==
    LET els == SelectSeq(doc, LAMBDA e : e.tag = tag)
    IN  [i \in 1..Len(els) |-> els[i].text]

\* C15: once an object's resolver has succeeded, a field access does not
\* invoke it again; a resolver that raises leaves the object unresolved, and
\* the next field access invokes the resolver again.
C15_ResolveOnce ==
    [][(lastOp' = "access") =>
        LET i == lastArgs'.index
            o == lazy[i]
            o2 == lazy'[i]
        IN  /\ Len(lazy') = Len(lazy)
            /\ \A j \in 1..Len(lazy) : j # i => lazy'[j] = lazy[j]
            /\ o.resolved =>
                  /\ o2 = o
                  /\ sent' = <<>>
                  /\ io' = <<>>
                  /\ lastExc' = NoExc
            /\ ~o.resolved =>
                  /\ connected => sent' = <<ResolverRq(o.kind)>>
                  /\ ~connected => lastExc' = NotConnected
                  /\ lastExc' = NoExc => o2.resolved /\ o2.data # <<>>
                  /\ lastExc' # NoExc => ~o2.resolved /\ o2.data = <<>>]_vars

C15_Witness ==
    /\ lastOp = "access"
    /\ lastArgs.index \in 1..Len(lazy)
    /\ lazy[lastArgs.index].resolved
    /\ lazy[lastArgs.index].failed
    /\ sent = <<>>
    /\ connected

\* --------------------------------------------------------------------
ListedNumbers ==
    {n \in Labels : \E i \in 1..Len(server.parts) :
        server.parts[i].tag = "Num" /\ server.parts[i].text = n}

ObjectNames == {lazy[i].name : i \in 1..Len(lazy)}

Called(op) == lastOp = op /\ lastExc # NotConnected

\* C19: get_customers sends the one request CustomerNameListRq and
\* get_products(lazy=True) the one request LightPartListRq; they return one
\* unresolved object per listed name, get_products with each non-empty part
\* number at most once.  get_products(lazy=False) sends its ProductGetRq
\* sub-requests during the call and omits the products whose node is empty.
C19_DeferredSubRequests ==
    /\ Called("get_customers") => sent = <<"CustomerNameListRq">>
    /\ (Called("get_customers") /\ lastExc = NoExc) =>
          LET names == ListedTexts(server.names, "Name")
          IN  /\ Len(lazy) = Len(names)
              /\ \A i \in 1..Len(lazy) : lazy[i] = Pending("Customer", names[i])
    /\ (Called("get_products") /\ lastArgs.lazy) => sent = <<"LightPartListRq">>
    /\ (Called("get_products") /\ lastExc = NoExc) =>
          /\ \A i, j \in 1..Len(lazy) : lazy[i].name = lazy[j].name => i = j
          /\ ObjectNames \subseteq ListedNumbers
    /\ (Called("get_products") /\ lastExc = NoExc /\ lastArgs.lazy) =>
          /\ ObjectNames = ListedNumbers
          /\ \A i \in 1..Len(lazy) : lazy[i] = Pending("Product", lazy[i].name)
    /\ (Called("get_products") /\ ~lastArgs.lazy) =>
          /\ sent[1] = "LightPartListRq"
          /\ \A i \in 2..Len(sent) : sent[i] = "ProductGetRq"
    /\ (Called("get_products") /\ lastExc = NoExc /\ ~lastArgs.lazy) =>
          /\ Len(sent) - 1 >= Cardinality(ListedNumbers)
          /\ ObjectNames = {n \in ListedNumbers : server.sub[n] = "full"}
          /\ \A i \in 1..Len(lazy) :
                lazy[i].resolved /\ Len(lazy[i].data) > 1

C19_Witness ==
    /\ Called("get_products")
    /\ ~lastArgs.lazy
    /\ lastExc = NoExc
    /\ sent = <<"LightPartListRq", "ProductGetRq", "ProductGetRq">>
    /\ Len(lazy) = 1

\* --------------------------------------------------------------------
Opens(log) == {i \in 1..Len(log) : log[i].ev = "open"}

\* C17: connect on a connected session closes the previous stream before it
\* opens the new transport, so no open stream is ever replaced; when that
\* close fails, connect raises the failure, opens nothing and leaves the
\* session disconnected.
C17_ReconnectOrdering ==
    [][(lastOp' = "connect") =>
        /\ connected => Len(io') >= 1 /\ io'[1].ev = "close"
        /\ \A i \in Opens(io') :
              /\ stream = "open" => \E j \in 1..(i - 1) : io'[j].ev = "close"
              /\ io'[i].res = "ok" => leaked' = leaked
        /\ (connected /\ io'[1].res = "error") =>
              /\ lastExc' = CloseError
              /\ ~connected'
              /\ key' = None
              /\ Opens(io') = {}
              /\ stream' # "open"]_vars

C17_Witness ==
    /\ lastOp = "connect"
    /\ Len(io) >= 2
    /\ io[1].ev = "close"
    /\ io[2].ev = "open"
    /\ io[2].res = "ok"
    /\ connected
    /\ stream = "open"

\* --------------------------------------------------------------------
\* The number of octets the recv calls of the log took from the stream.
RECURSIVE Consumed(_)
Consumed(log) ==
    IF log = <<>> THEN 0
    ELSE (IF Head(log).ev = "recv" /\ Head(log).res = "ok" THEN Head(log).n ELSE 0)
         + Consumed(Tail(log))

\* C18: after a send_message call, a session that is still connected has
\* consumed nothing or exactly one whole frame (the prefix and the number of
\* octets the prefix announces).
C18_FrameAligned ==
    (lastOp = "send_message" /\ connected) =>
        \/ Consumed(io) = 0
        \/ rx.got /\ Consumed(io) = PrefixLen + rx.length

\* --------------------------------------------------------------------
\* The octets caller c has read in its current call.
ReadBy(c) == callers[c].packed_length \o callers[c].response

HoldsForeign(c) == \E i \in 1..Len(ReadBy(c)) : ReadBy(c)[i].owner # c

====
